---- MODULE Spec2Model ----
(***************************************************************************)
(* Model of packages/tailwindcss/src/compile.ts: compileCandidates,        *)
(* compileAstNodes, applyVariant, compileBaseUtility, applyImportant and   *)
(* getPropertySort.                                                        *)
(*                                                                         *)
(* A raw candidate text is a sequence of one-character strings.  An AST    *)
(* node is a record: a declaration [kind, property, value, important] or a *)
(* rule [kind, selector, nodes]; a selector is a sequence of strings.      *)
(* The design system (parser, utility registry, variant registry, theme)  *)
(* is an input: the variable designSystem holds its answers.               *)
(***************************************************************************)
EXTENDS Integers, Sequences, FiniteSets, TLC

VARIABLES
    designSystem,   \* the design system handed to every call (read-only)
    rawCandidates,  \* compileCandidates: the batch, a sequence of raw texts
    pc,             \* compileCandidates: position in the function body
    idx,            \* compileCandidates: index of the running for loop
    candidates,     \* compileCandidates: Map<Candidate, string>, in insertion order
    variants,       \* compileCandidates: the sorted used variants
    astNodes,       \* compileCandidates: emitted nodes
    nodeSorting,    \* compileCandidates: Map<AstNode, sort record>
    invalid,        \* the onInvalidCandidate calls made so far, in call order
    cpc,            \* compileAstNodes: position in the function body
    rawCandidate,   \* compileAstNodes: its argument
    candidate,      \* compileAstNodes: the parsed candidate
    nodes,          \* compileAstNodes: the base nodes
    propertySort,   \* compileAstNodes: the property sort key
    node,           \* compileAstNodes: the rule built around the base nodes
    vidx,           \* compileAstNodes: index of the variant loop
    calls,          \* the registry applyFn calls made so far: [root, on]
    result          \* compileAstNodes: what it returned

vars == <<designSystem, rawCandidates, pc, idx, candidates, variants, astNodes,
          nodeSorting, invalid, cpc, rawCandidate, candidate, nodes,
          propertySort, node, vidx, calls, result>>

batchVars == <<rawCandidates, pc, idx, candidates, variants, astNodes,
               nodeSorting, invalid>>

compileVars == <<cpc, rawCandidate, candidate, nodes, propertySort, node,
                 vidx, calls, result>>

----------------------------------------------------------------------------
(* Bounds of the model. *)

\* the largest number of AST nodes in the forest a utility compiles to
MaxNodes == 3

\* the largest number of variants, nested ones counted, in a variant stack
MaxVariantSize == 3

\* the largest number of raw candidates in a batch
MaxBatch == 2

----------------------------------------------------------------------------
(* Values of the language. *)

\* null: the "no result" sentinel
Null == [kind |-> "null"]

\* undefined: what a compileFn or an early `return` without a value gives
Undefined == [kind |-> "undefined"]

\* the reserved selectors
AtRoot == <<"@at-root">>

Slot == <<"@slot">>

\* ast.ts decl(property, value): a declaration, not important
decl(property, value) ==
    [kind |-> "declaration", property |-> property, value |-> value,
     important |-> FALSE]

\* ast.ts rule(selector, nodes)
rule(selector, children) ==
    [kind |-> "rule", selector |-> selector, nodes |-> children]

\* Array.prototype.indexOf, 0-based, -1 when absent
IndexOf(seq, x) ==
    IF \E i \in 1..Len(seq) : seq[i] = x
    THEN (CHOOSE i \in 1..Len(seq) :
             seq[i] = x /\ \A j \in 1..(i - 1) : seq[j] # x) - 1
    ELSE -1

\* property-order.ts: the fixed ordered table of property names
GLOBAL_PROPERTY_ORDER == <<"padding", "display", "color">>

\* utils/escape.ts: CSS.escape on the characters raw texts are made of;
\* ':' and '!' are escaped with a backslash, letters are kept
RECURSIVE escape(_)
escape(text) ==
    IF text = <<>> THEN <<>>
    ELSE (IF Head(text) \in {":", "!"} THEN <<"\\", Head(text)>>
          ELSE <<Head(text)>>) \o escape(Tail(text))

----------------------------------------------------------------------------
(* getPropertySort *)

\* propertySort.set(idx, (propertySort.get(idx) ?? 0) + 1); the Map is a
\* function from table index to count, 0 for an absent key
Bump(m, i) == [m EXCEPT ![i] = @ + 1]

\* the while loop without its break: the traversal goes on past an override
RECURSIVE PropertySortLoopNoBreak(_, _)
PropertySortLoopNoBreak(q, m) ==
    IF q = <<>> THEN m
    ELSE LET n == Head(q) IN
         IF n.kind = "declaration"
         THEN LET o == IF n.property = "--tw-sort"
                       THEN IndexOf(GLOBAL_PROPERTY_ORDER, n.value) ELSE -1
                  i == IndexOf(GLOBAL_PROPERTY_ORDER, n.property)
              IN  PropertySortLoopNoBreak(Tail(q),
                      IF o # -1 THEN Bump(m, o) ELSE IF i # -1 THEN Bump(m, i) ELSE m)
         ELSE IF n.selector = AtRoot THEN PropertySortLoopNoBreak(Tail(q), m)
              ELSE PropertySortLoopNoBreak(Tail(q) \o n.nodes, m)

\* the while loop over the queue q, with the Map m built so far
RECURSIVE PropertySortLoop(_, _)
PropertySortLoop(q, m) ==
    IF q = <<>> THEN m
    ELSE LET n == Head(q) IN
         IF n.kind = "declaration"
         THEN LET o == IF n.property = "--tw-sort"
                       THEN IndexOf(GLOBAL_PROPERTY_ORDER, n.value) ELSE -1
                  i == IndexOf(GLOBAL_PROPERTY_ORDER, n.property)
              IN  IF o # -1 THEN Bump(m, o)                       \* break
                  ELSE PropertySortLoop(Tail(q), IF i # -1 THEN Bump(m, i) ELSE m)
         ELSE IF n.selector = AtRoot THEN PropertySortLoop(Tail(q), m)
              ELSE PropertySortLoop(Tail(q) \o n.nodes, m)

\* the keys of the Map in ascending order
RECURSIVE SortedKeys(_, _)
SortedKeys(m, i) ==
    IF i >= Len(GLOBAL_PROPERTY_ORDER) THEN <<>>
    ELSE (IF m[i] > 0 THEN <<i>> ELSE <<>>) \o SortedKeys(m, i + 1)

getPropertySort(ast) ==
    LET m == PropertySortLoop(ast, [i \in 0..(Len(GLOBAL_PROPERTY_ORDER) - 1) |-> 0])
        sorted == SortedKeys(m, 0)
    IN  <<sorted, [k \in 1..Len(sorted) |-> m[sorted[k]]]>>

----------------------------------------------------------------------------
(* applyImportant *)

\* applyImportant without the at-root check
RECURSIVE applyImportantEverywhere(_)
applyImportantEverywhere(ast) ==
    [k \in 1..Len(ast) |->
        LET n == ast[k] IN
        IF n.kind = "declaration" THEN [n EXCEPT !.important = TRUE]
        ELSE [n EXCEPT !.nodes = applyImportantEverywhere(n.nodes)]]

\* applyImportant(ast): the forest as the call leaves it
RECURSIVE applyImportant(_)
applyImportant(ast) ==
    [k \in 1..Len(ast) |->
        LET n == ast[k] IN
        IF n.kind = "rule" /\ n.selector = AtRoot THEN n
        ELSE IF n.kind = "declaration" THEN [n EXCEPT !.important = TRUE]
        ELSE [n EXCEPT !.nodes = applyImportant(n.nodes)]]

----------------------------------------------------------------------------
(* applyVariant *)

\* variants.ts: what the applyFn registered under a root does to a rule.
\*   noop      leaves the rule alone                      (force)
\*   selector  rewrites the rule's selector               (has, group)
\*   wrap      wraps the children in one rule             (focus)
\*   wrap2     wraps the children in two nested rules     (hover)
\*   wrapEach  wraps the children in each of two rules    (marker)
\*   decl      adds a declaration to the children         (content)
\*   null      signals that the variant is inapplicable   (unsupported)
VariantBehaviour(root) ==
    CASE root = "force" -> "noop"
      [] root = "has" -> "selector"
      [] root = "group" -> "selector"
      [] root = "focus" -> "wrap"
      [] root = "hover" -> "wrap2"
      [] root = "marker" -> "wrapEach"
      [] root = "content" -> "decl"
      [] OTHER -> "null"

\* variants.get(root).applyFn(node, variant): [ok, node]; ok = FALSE is null
applyFn(root, n) ==
    LET b == VariantBehaviour(root) IN
    CASE b = "noop" -> [ok |-> TRUE, node |-> n]
      [] b = "selector" ->
            [ok |-> TRUE, node |-> [n EXCEPT !.selector = <<root>> \o @]]
      [] b = "wrap" ->
            [ok |-> TRUE,
             node |-> [n EXCEPT !.nodes = <<rule(<<"&:", root>>, @)>>]]
      [] b = "wrap2" ->
            [ok |-> TRUE,
             node |-> [n EXCEPT !.nodes =
                         <<rule(<<"&:", root>>, <<rule(<<"@media", root>>, @)>>)>>]]
      [] b = "wrapEach" ->
            [ok |-> TRUE,
             node |-> [n EXCEPT !.nodes =
                         <<rule(<<"& *::", root>>, @), rule(<<"&::", root>>, @)>>]]
      [] b = "decl" ->
            [ok |-> TRUE,
             node |-> [n EXCEPT !.nodes = <<decl("content", "attr")>> \o @]]
      [] OTHER -> [ok |-> FALSE, node |-> n]

\* the replacement without the walk: only the placeholder's own children are
\* looked at
ReplacePlaceholderShallow(ast, children) ==
    [k \in 1..Len(ast) |->
        IF ast[k].kind = "rule" /\ Len(ast[k].nodes) <= 0
        THEN [ast[k] EXCEPT !.nodes = children]
        ELSE ast[k]]

\* the walk of the placeholder's nodes: a rule without children gets the
\* children of the original rule and is not descended into (WalkAction.Skip);
\* any other rule is descended into; the walk goes on with the siblings
RECURSIVE ReplacePlaceholder(_, _)
ReplacePlaceholder(ast, children) ==
    [k \in 1..Len(ast) |->
        LET n == ast[k] IN
        IF n.kind = "rule" /\ Len(n.nodes) <= 0 THEN [n EXCEPT !.nodes = children]
        ELSE IF n.kind = "rule"
             THEN [n EXCEPT !.nodes = ReplacePlaceholder(n.nodes, children)]
             ELSE n]

\* the loop over the placeholder's children: [ok, nodes, calls], the children
\* as the compound's applyFn left them and the applyFn calls made
RECURSIVE CompoundLoop(_, _, _, _)
CompoundLoop(root, children, k, log) ==
    IF k > Len(children) THEN [ok |-> TRUE, nodes |-> children, calls |-> log]
    ELSE IF children[k].kind # "rule"
         THEN [ok |-> FALSE, nodes |-> children, calls |-> log]
         ELSE LET r == applyFn(root, children[k])
                  log2 == Append(log, [root |-> root, on |-> children[k]])
              IN  IF ~r.ok THEN [ok |-> FALSE, nodes |-> children, calls |-> log2]
                  ELSE CompoundLoop(root, [children EXCEPT ![k] = r.node], k + 1, log2)

\* applyVariant(node, variant, variants): [ok, node, calls]; ok = FALSE is the
\* null it returns, node is the rule as the call left it, calls the registry
\* applyFn calls it made, in order
RECURSIVE applyVariant(_, _)
applyVariant(n, variant) ==
    IF variant.kind = "arbitrary"
    THEN [ok |-> TRUE,
          node |-> [n EXCEPT !.nodes = <<rule(variant.selector, @)>>],
          calls |-> <<>>]
    ELSE IF variant.kind = "compound"
    THEN LET isolatedNode == rule(Slot, <<>>)
             inner == applyVariant(isolatedNode, variant.variant)
             loop == CompoundLoop(variant.root, inner.node.nodes, 1, inner.calls)
         IN  IF ~inner.ok THEN [ok |-> FALSE, node |-> n, calls |-> inner.calls]
             ELSE IF ~loop.ok THEN [ok |-> FALSE, node |-> n, calls |-> loop.calls]
             ELSE [ok |-> TRUE,
                   node |-> [n EXCEPT !.nodes = ReplacePlaceholder(loop.nodes, n.nodes)],
                   calls |-> loop.calls]
    ELSE LET r == applyFn(variant.root, n) IN
         [ok |-> r.ok, node |-> r.node,
          calls |-> <<[root |-> variant.root, on |-> n]>>]

----------------------------------------------------------------------------
(* compileBaseUtility *)

\* a node list as a value that null and undefined can be told from
Nodes(ast) == [kind |-> "nodes", nodes |-> ast]

\* designSystem.parseCandidate(rawCandidate)
parseCandidate(ds, raw) ==
    IF raw \in DOMAIN ds.parse THEN ds.parse[raw] ELSE Null

\* designSystem.utilities.get(root) ?? []
UtilitiesGet(ds, root) ==
    IF root \in DOMAIN ds.utilities THEN ds.utilities[root] ELSE <<>>

\* the for loop over the utilities, from index i (1-based) down
RECURSIVE UtilityLoop(_, _, _)
UtilityLoop(cand, utilities, i) ==
    IF i < 1 THEN Null
    ELSE IF cand.kind # utilities[i].kind THEN UtilityLoop(cand, utilities, i - 1)
    ELSE LET compiledNodes == utilities[i].compileFn IN
         IF compiledNodes.kind = "null" THEN Null
         ELSE IF compiledNodes.kind = "nodes" THEN compiledNodes
         ELSE UtilityLoop(cand, utilities, i - 1)

\* compileBaseUtility(candidate, designSystem): Nodes(..), Null or Undefined
compileBaseUtility(cand, ds) ==
    IF cand.kind = "arbitrary"
    THEN LET value == IF cand.modifier.kind # "null" THEN ds.asColor
                      ELSE [kind |-> "string", value |-> cand.value]
         IN  IF value.kind = "null" THEN Undefined
             ELSE Nodes(<<decl(cand.property, value.value)>>)
    ELSE LET utilities == UtilitiesGet(ds, cand.root) IN
         UtilityLoop(cand, utilities, Len(utilities))

----------------------------------------------------------------------------
(* compileAstNodes *)

\* the for loop over candidate.variants from index k: [ok, node, calls]
RECURSIVE VariantLoop(_, _, _, _)
VariantLoop(n, vs, k, log) ==
    IF k > Len(vs) THEN [ok |-> TRUE, node |-> n, calls |-> log]
    ELSE LET r == applyVariant(n, vs[k]) IN
         IF ~r.ok THEN [ok |-> FALSE, node |-> r.node, calls |-> log \o r.calls]
         ELSE VariantLoop(r.node, vs, k + 1, log \o r.calls)

\* compileAstNodes without the check of what applyVariant returned
compileAstNodesUnchecked(raw, ds) ==
    LET cand == parseCandidate(ds, raw) IN
    IF cand.kind = "null" THEN Null
    ELSE LET base == compileBaseUtility(cand, ds) IN
         IF base.kind # "nodes" THEN Null
         ELSE LET sort == getPropertySort(base.nodes)
                  body == IF cand.important THEN applyImportant(base.nodes)
                          ELSE base.nodes
                  top == rule(<<".">> \o escape(raw), body)
                  r == VariantLoop(top, cand.variants, 1, <<>>)
              IN  [kind |-> "ok", node |-> r.node, propertySort |-> sort]

\* compileAstNodes(rawCandidate, designSystem): Null, or [kind |-> "ok", node,
\* propertySort]
compileAstNodes(raw, ds) ==
    LET cand == parseCandidate(ds, raw) IN
    IF cand.kind = "null" THEN Null
    ELSE LET base == compileBaseUtility(cand, ds) IN
         IF base.kind # "nodes" THEN Null
         ELSE LET sort == getPropertySort(base.nodes)
                  body == IF cand.important THEN applyImportant(base.nodes)
                          ELSE base.nodes
                  top == rule(<<".">> \o escape(raw), body)
                  r == VariantLoop(top, cand.variants, 1, <<>>)
              IN  IF ~r.ok THEN Null
                  ELSE [kind |-> "ok", node |-> r.node, propertySort |-> sort]

----------------------------------------------------------------------------
(* Inputs of compileAstNodes: one raw candidate and a design system. *)

\* candidate.ts Candidate, as parseCandidate gives it
Candidate(kind, root, property, value, modifier, important, vs) ==
    [kind |-> kind, root |-> root, property |-> property, value |-> value,
     modifier |-> modifier, important |-> important, variants |-> vs]

\* a named-utility candidate
Named(kind, root, important, vs) ==
    Candidate(kind, root, "", "", Null, important, vs)

\* candidate.ts Variant
StaticVariant(root) == [kind |-> "static", root |-> root]

ArbitraryVariant(selector) == [kind |-> "arbitrary", selector |-> selector]

CompoundVariant(root, inner) ==
    [kind |-> "compound", root |-> root, variant |-> inner]

\* the declarations utilities are made of
DeclPool ==
    {decl("padding", "1"), decl("display", "flex"), decl("--tw-sort", "padding"),
     decl("--tw-sort", "color"), decl("--tw-sort", "bogus")}

SelectorPool == {AtRoot, <<"&">>}

\* the trees and forests of exactly n nodes
RECURSIVE TreesOfSize(_)
RECURSIVE ForestsOfSize(_)
TreesOfSize(n) ==
    (IF n = 1 THEN DeclPool ELSE {})
    \cup {rule(s, f) : s \in SelectorPool, f \in ForestsOfSize(n - 1)}

ForestsOfSize(n) ==
    IF n = 0 THEN {<<>>}
    ELSE UNION {{<<t>> \o f : t \in TreesOfSize(k), f \in ForestsOfSize(n - k)} :
                  k \in 1..n}

Forests == UNION {ForestsOfSize(n) : n \in 0..MaxNodes}

StaticRoots ==
    {"force", "has", "focus", "hover", "marker", "content", "unsupported"}

CompoundRoots == {"group", "unsupported"}

\* the variants of exactly n variants, nested ones counted
RECURSIVE VariantsOfSize(_)
VariantsOfSize(n) ==
    IF n = 1
    THEN {StaticVariant(r) : r \in StaticRoots} \cup {ArbitraryVariant(<<"&_p">>)}
    ELSE {CompoundVariant(r, v) : r \in CompoundRoots, v \in VariantsOfSize(n - 1)}

RECURSIVE StacksOfSize(_)
StacksOfSize(n) ==
    IF n = 0 THEN {<<>>}
    ELSE UNION {{<<v>> \o vs : v \in VariantsOfSize(k), vs \in StacksOfSize(n - k)} :
                  k \in 1..n}

Stacks == UNION {StacksOfSize(n) : n \in 0..MaxVariantSize}

\* a registered utility: its kind and what its compileFn answers
Utility(kind, out) == [kind |-> kind, compileFn |-> out]

DesignSystem(parse, utilities, asColor) ==
    [parse |-> parse, utilities |-> utilities, asColor |-> asColor]

\* one utility "u" compiling to any forest, important or not
ForestInputs ==
    {[raw |-> IF imp THEN <<"u", "!">> ELSE <<"u">>,
      ds |-> DesignSystem(
                (IF imp THEN <<"u", "!">> ELSE <<"u">>) :> Named("static", "u", imp, <<>>),
                "u" :> <<Utility("static", Nodes(f))>>, Null)] :
        f \in Forests, imp \in BOOLEAN}

\* one utility "u" under any variant stack
StackInputs ==
    {[raw |-> <<"v", ":", "u">>,
      ds |-> DesignSystem(
                <<"v", ":", "u">> :> Named("static", "u", FALSE, vs),
                "u" :> <<Utility("static", Nodes(f))>>, Null)] :
        vs \in Stacks, f \in {<<decl("display", "flex")>>}}

CompileOutcomes ==
    {Null, Undefined, Nodes(<<>>), Nodes(<<decl("display", "flex")>>)}

UtilityLists ==
    LET U == {Utility(k, o) : k \in {"static", "functional"}, o \in CompileOutcomes}
    IN  {<<>>} \cup {<<u>> : u \in U} \cup {<<u, w>> : u \in U, w \in U}

\* any registration of "u", a candidate of either kind
ResolveInputs ==
    {[raw |-> <<"u">>,
      ds |-> DesignSystem(<<"u">> :> Named(k, "u", FALSE, <<>>), "u" :> us, Null)] :
        k \in {"static", "functional"}, us \in UtilityLists}

\* an arbitrary property, with and without a modifier; a text that does not
\* parse; a root nothing is registered under
OtherInputs ==
    {[raw |-> <<"[", "]">>,
      ds |-> DesignSystem(
                <<"[", "]">> :> Candidate("arbitrary", "", "color", "red", m, FALSE, <<>>),
                <<>>, c)] :
        m \in {Null, [kind |-> "named", value |-> "50"]},
        c \in {Null, [kind |-> "string", value |-> "rgb"]}}
    \cup {[raw |-> <<"?">>, ds |-> DesignSystem(<<>>, <<>>, Null)]}
    \cup {[raw |-> <<"u">>,
           ds |-> DesignSystem(<<"u">> :> Named("static", "u", FALSE, <<>>), <<>>, Null)]}

CompileInputs == ForestInputs \cup StackInputs \cup ResolveInputs \cup OtherInputs

----------------------------------------------------------------------------
(* compileAstNodes, statement by statement. *)

InitCompile ==
    /\ \E in \in CompileInputs :
         /\ designSystem = in.ds
         /\ rawCandidate = in.raw
    /\ cpc = "parse"
    /\ candidate = Null
    /\ nodes = Null
    /\ propertySort = <<<<>>, <<>>>>
    /\ node = Null
    /\ vidx = 0
    /\ calls = <<>>
    /\ result = Undefined
    /\ rawCandidates = <<>>
    /\ pc = "idle"
    /\ idx = 0
    /\ candidates = <<>>
    /\ variants = <<>>
    /\ astNodes = <<>>
    /\ nodeSorting = <<>>
    /\ invalid = <<>>

\* let candidate = designSystem.parseCandidate(rawCandidate)
\* if (candidate === null) return null
CParse ==
    /\ cpc = "parse"
    /\ candidate' = parseCandidate(designSystem, rawCandidate)
    /\ IF candidate'.kind = "null"
       THEN cpc' = "done" /\ result' = Null
       ELSE cpc' = "base" /\ UNCHANGED result
    /\ UNCHANGED <<designSystem, rawCandidate, nodes, propertySort, node, vidx, calls>>
    /\ UNCHANGED batchVars

\* let nodes = compileBaseUtility(candidate, designSystem)
\* if (!nodes) return null
CBase ==
    /\ cpc = "base"
    /\ nodes' = compileBaseUtility(candidate, designSystem)
    /\ IF nodes'.kind # "nodes"
       THEN cpc' = "done" /\ result' = Null
       ELSE cpc' = "sort" /\ UNCHANGED result
    /\ UNCHANGED <<designSystem, rawCandidate, candidate, propertySort, node, vidx, calls>>
    /\ UNCHANGED batchVars

\* let propertySort = getPropertySort(nodes)
CSort ==
    /\ cpc = "sort"
    /\ propertySort' = getPropertySort(nodes.nodes)
    /\ cpc' = "important"
    /\ UNCHANGED <<designSystem, rawCandidate, candidate, nodes, node, vidx, calls, result>>
    /\ UNCHANGED batchVars

\* if (candidate.important) applyImportant(nodes)
\* let node = { kind: 'rule', selector: `.${escape(rawCandidate)}`, nodes }
CImportant ==
    /\ cpc = "important"
    /\ nodes' = IF candidate.important THEN Nodes(applyImportant(nodes.nodes)) ELSE nodes
    /\ node' = rule(<<".">> \o escape(rawCandidate), nodes'.nodes)
    /\ vidx' = 1
    /\ cpc' = "variants"
    /\ UNCHANGED <<designSystem, rawCandidate, candidate, propertySort, calls, result>>
    /\ UNCHANGED batchVars

\* one iteration of: for (let variant of candidate.variants)
CVariant ==
    /\ cpc = "variants"
    /\ vidx <= Len(candidate.variants)
    /\ LET r == applyVariant(node, candidate.variants[vidx]) IN
         /\ node' = r.node
         /\ calls' = calls \o r.calls
         /\ IF ~r.ok
            THEN cpc' = "done" /\ result' = Null /\ UNCHANGED vidx
            ELSE vidx' = vidx + 1 /\ UNCHANGED <<cpc, result>>
    /\ UNCHANGED <<designSystem, rawCandidate, candidate, nodes, propertySort>>
    /\ UNCHANGED batchVars

\* return { node, propertySort }
CReturn ==
    /\ cpc = "variants"
    /\ vidx > Len(candidate.variants)
    /\ result' = [kind |-> "ok", node |-> node, propertySort |-> propertySort]
    /\ cpc' = "done"
    /\ UNCHANGED <<designSystem, rawCandidate, candidate, nodes, propertySort, node,
                   vidx, calls>>
    /\ UNCHANGED batchVars

NextCompile == CParse \/ CBase \/ CSort \/ CImportant \/ CVariant \/ CReturn

SpecCompile == InitCompile /\ [][NextCompile]_vars

\* the statements, run one by one, return what compileAstNodes returns
StepsAgree ==
    cpc = "done" => result = compileAstNodes(rawCandidate, designSystem)

----------------------------------------------------------------------------
(* Claims about compileAstNodes and the functions it calls (SpecCompile). *)

\* what the registered utility compiled to, before compileAstNodes touched it
BaseNodes == compileBaseUtility(candidate, designSystem)

\* compileAstNodes is past its importance step with base nodes in hand
PastImportant == nodes.kind = "nodes" /\ cpc \in {"variants", "done"}

\* the declarations of a forest in document order, each with its important
\* flag and whether an ancestor rule has the at-root selector
RECURSIVE DeclFlags(_, _)
DeclFlags(ast, shielded) ==
    IF ast = <<>> THEN <<>>
    ELSE LET n == Head(ast) IN
         (IF n.kind = "declaration"
          THEN <<[important |-> n.important, shielded |-> shielded]>>
          ELSE DeclFlags(n.nodes, shielded \/ n.selector = AtRoot))
         \o DeclFlags(Tail(ast), shielded)

\* a forest with every important flag cleared
RECURSIVE Unmarked(_)
Unmarked(ast) ==
    [k \in 1..Len(ast) |->
        IF ast[k].kind = "declaration" THEN [ast[k] EXCEPT !.important = FALSE]
        ELSE [ast[k] EXCEPT !.nodes = Unmarked(ast[k].nodes)]]

\* C8: after the importance step of compileAstNodes, a declaration of the base
\* nodes is important exactly when the candidate requests !important and the
\* declaration has no ancestor rule with the at-root selector; nothing else
\* of the base nodes is changed.
C8_Importance ==
    PastImportant =>
        /\ \A k \in DOMAIN DeclFlags(nodes.nodes, FALSE) :
              LET d == DeclFlags(nodes.nodes, FALSE)[k] IN
              d.important = (candidate.important /\ ~d.shielded)
        /\ Unmarked(nodes.nodes) = BaseNodes.nodes

\* an important candidate with a declaration inside and one outside an at-root
\* subtree is past the importance step
C8_Witness ==
    /\ PastImportant
    /\ candidate.important
    /\ \E j, k \in DOMAIN DeclFlags(nodes.nodes, FALSE) :
          /\ DeclFlags(nodes.nodes, FALSE)[j].shielded
          /\ ~DeclFlags(nodes.nodes, FALSE)[k].shielded
          /\ DeclFlags(nodes.nodes, FALSE)[k].important

\* the declarations getPropertySort visits, in the order it visits them:
\* level by level, the children of at-root rules left out
RECURSIVE LevelOrder(_)
LevelOrder(ast) ==
    IF ast = <<>> THEN <<>>
    ELSE LET Keep(n) == n.kind = "declaration"
             Open(n) == n.kind = "rule" /\ n.selector # AtRoot
             RECURSIVE Below(_)
             Below(k) == IF k > Len(ast) THEN <<>>
                         ELSE (IF Open(ast[k]) THEN ast[k].nodes ELSE <<>>) \o Below(k + 1)
         IN  SelectSeq(ast, Keep) \o LevelOrder(Below(1))

\* a declaration that overrides the sort key
IsOverride(d) ==
    d.property = "--tw-sort" /\ IndexOf(GLOBAL_PROPERTY_ORDER, d.value) # -1

\* every declaration of a forest, at-root subtrees included
RECURSIVE AllDecls(_)
AllDecls(ast) ==
    IF ast = <<>> THEN <<>>
    ELSE (IF Head(ast).kind = "declaration" THEN <<Head(ast)>>
          ELSE AllDecls(Head(ast).nodes)) \o AllDecls(Tail(ast))

\* the position in the visiting order of the first override declaration, 0
\* when there is none
FirstOverride(order) ==
    IF \E k \in 1..Len(order) : IsOverride(order[k])
    THEN CHOOSE k \in 1..Len(order) :
            IsOverride(order[k]) /\ \A j \in 1..(k - 1) : ~IsOverride(order[j])
    ELSE 0

\* the key of a visiting order cut at position k (k itself an override): per
\* table index, the declarations before k with that property, plus the override
KeyUpTo(order, k) ==
    LET o == IndexOf(GLOBAL_PROPERTY_ORDER, order[k].value)
        Count(i) == Cardinality({j \in 1..(k - 1) :
                        IndexOf(GLOBAL_PROPERTY_ORDER, order[j].property) = i})
                    + (IF i = o THEN 1 ELSE 0)
        Present == {i \in 0..(Len(GLOBAL_PROPERTY_ORDER) - 1) : Count(i) > 0}
        RECURSIVE Asc(_)
        Asc(i) == IF i >= Len(GLOBAL_PROPERTY_ORDER) THEN <<>>
                  ELSE (IF i \in Present THEN <<i>> ELSE <<>>) \o Asc(i + 1)
    IN  <<Asc(0), [n \in 1..Len(Asc(0)) |-> Count(Asc(0)[n])]>>

PastSort == nodes.kind = "nodes" /\ cpc \in {"important", "variants", "done"}

\* C7 as stated: when the base nodes hold an override declaration (property
\* --tw-sort, value in the property-order table) that the traversal reaches,
\* the key getPropertySort returns is made of the override's index alone,
\* whatever is declared before or after it.
C7_OverrideAloneAsStated ==
    PastSort =>
        LET order == LevelOrder(BaseNodes.nodes)
            k == FirstOverride(order)
        IN  k > 0 =>
              propertySort[1] = <<IndexOf(GLOBAL_PROPERTY_ORDER, order[k].value)>>

\* C7, amended: when the traversal of getPropertySort reaches an override
\* declaration, it stops there: the key is made of the override's index and
\* of the indices of the table properties declared before it in visiting
\* order, each with its count; no declaration after it contributes.
C7_OverrideStopsTraversal ==
    PastSort =>
        LET order == LevelOrder(BaseNodes.nodes)
            k == FirstOverride(order)
        IN  k > 0 => propertySort = KeyUpTo(order, k)

\* an override declaration with a table property declared before it and
\* another after it has been through getPropertySort
C7_Witness ==
    /\ PastSort
    /\ LET order == LevelOrder(BaseNodes.nodes)
           k == FirstOverride(order)
       IN  /\ k > 1 /\ k < Len(order)
           /\ order[1].property = "display"
           /\ order[Len(order)].property = "padding"
           /\ order[k].value = "color"
           /\ propertySort = <<<<1, 2>>, <<1, 1>>>>

\* C10 as stated: compileAstNodes returns null whenever base-utility
\* resolution produced no nodes, an empty node list included, and never
\* returns a rule with an empty body.
C10_NoEmptyRuleAsStated ==
    cpc = "done" =>
        /\ (candidate.kind # "null" /\ BaseNodes.kind = "nodes"
              /\ BaseNodes.nodes = <<>>)
              => result.kind = "null"
        /\ result.kind = "ok" => result.node.nodes # <<>>

\* the variant applied by the step compileAstNodes takes next
Applying == candidate.variants[vidx]

AtVariant == cpc = "variants" /\ vidx <= Len(candidate.variants)

\* the variant wraps the children of the rule it is applied to in a rule (or
\* in nested rules) and does nothing else
RECURSIVE WrapsChildren(_)
WrapsChildren(v) ==
    CASE v.kind = "arbitrary" -> TRUE
      [] v.kind = "static" ->
            VariantBehaviour(v.root) \in {"wrap", "wrap2", "wrapEach"}
      [] OTHER -> VariantBehaviour(v.root) = "selector" /\ WrapsChildren(v.variant)

\* what such a variant makes of children: the rules it introduces around
\* them; a compound rewrites the selectors of the outermost rules of its inner
\* variant and nothing below them
RECURSIVE Wrapped(_, _)
Wrapped(v, children) ==
    CASE v.kind = "arbitrary" -> <<rule(v.selector, children)>>
      [] v.kind = "static" /\ VariantBehaviour(v.root) = "wrap" ->
            <<rule(<<"&:", v.root>>, children)>>
      [] v.kind = "static" /\ VariantBehaviour(v.root) = "wrap2" ->
            <<rule(<<"&:", v.root>>, <<rule(<<"@media", v.root>>, children)>>)>>
      [] v.kind = "static" ->
            <<rule(<<"& *::", v.root>>, children), rule(<<"&::", v.root>>, children)>>
      [] OTHER ->
            [k \in DOMAIN Wrapped(v.variant, children) |->
                [Wrapped(v.variant, children)[k] EXCEPT !.selector = <<v.root>> \o @]]

\* the applyFn calls a step added to the log
NewCalls == SubSeq(calls', Len(calls) + 1, Len(calls'))

\* C6: applying a compound variant O, whose applyFn rewrites, over an inner
\* variant I that wraps children in a rule, to a rule with children C succeeds
\* and leaves the rule, its selector untouched, with the rules of I around C,
\* the outermost of them rewritten by O and C whole in the innermost; O's
\* applyFn was called on the rules I put into the empty placeholder, one call
\* each, and no applyFn was called on the original rule or on a rule holding
\* a declaration.
C6_CompoundIsolation ==
    [][(/\ AtVariant
        /\ Applying.kind = "compound"
        /\ VariantBehaviour(Applying.root) = "selector"
        /\ WrapsChildren(Applying.variant))
       => LET introduced == Wrapped(Applying.variant, <<>>)
              n == Len(introduced)
          IN  /\ vidx' = vidx + 1
              /\ node'.selector = node.selector
              /\ node'.nodes = Wrapped(Applying, node.nodes)
              /\ Len(NewCalls) >= n
              /\ \A k \in 1..n :
                    NewCalls[Len(NewCalls) - n + k] =
                        [root |-> Applying.root, on |-> introduced[k]]
              /\ \A k \in 1..Len(NewCalls) :
                    /\ NewCalls[k].on.selector # node.selector
                    /\ AllDecls(<<NewCalls[k].on>>) = <<>>]_vars

\* group-hover was applied to a rule that focus had wrapped before: the
\* rule holds group's rewriting of hover's rule, hover's inner rule in it,
\* and focus's rule with the declaration innermost
C6_Witness ==
    /\ cpc = "variants"
    /\ vidx = 3
    /\ candidate.variants =
          <<StaticVariant("focus"), CompoundVariant("group", StaticVariant("hover"))>>
    /\ node.nodes =
          <<rule(<<"group", "&:", "hover">>,
                 <<rule(<<"@media", "hover">>,
                        <<rule(<<"&:", "focus">>, <<decl("display", "flex")>>)>>)>>)>>

\* the inner variant, applied to the empty placeholder, adds no node to it
AddsNoRule(v) ==
    LET r == applyVariant(rule(Slot, <<>>), v) IN r.ok /\ r.node.nodes = <<>>

\* C9 as stated: a compound variant whose inner variant is a no-op or only
\* rewrites the selector is inapplicable: applyVariant returns null for it,
\* and never succeeds leaving the rule without the children it had.
C9_NoopInnerAsStated ==
    [][(/\ AtVariant
        /\ Applying.kind = "compound"
        /\ AddsNoRule(Applying.variant))
       => /\ cpc' = "done"
          /\ result'.kind = "null"]_vars

----------------------------------------------------------------------------
(* compileCandidates: the comparators and the sorts. *)

\* the characters of raw texts in code-unit order
Alphabet == <<"!", ":", "c", "d", "f", "h", "m", "n", "p", "q", "r", "x", "z">>

charCodeAt(text, i) == IndexOf(Alphabet, text[i])

\* utils/compare.ts compare(a, z): by code unit at the first difference, then
\* by length
RECURSIVE compareFrom(_, _, _)
compareFrom(a, z, i) ==
    IF i > Len(a) \/ i > Len(z) THEN Len(a) - Len(z)
    ELSE IF charCodeAt(a, i) # charCodeAt(z, i)
         THEN charCodeAt(a, i) - charCodeAt(z, i)
         ELSE compareFrom(a, z, i + 1)

compare(a, z) == compareFrom(a, z, 1)

\* the order designSystem.variants.compare puts variant roots in
VariantOrder == <<"has", "focus", "unsupported">>

\* designSystem.variants.compare(a, z)
variantsCompare(a, z) == IndexOf(VariantOrder, a.root) - IndexOf(VariantOrder, z.root)

\* whether a sequence has an element at the 0-based i
Has(seq, i) == i + 1 \in DOMAIN seq

\* a[i] === z[i] for a 0-based i, both undefined past the end
SameAt(a, z, i) ==
    /\ Has(a, i) = Has(z, i)
    /\ Has(a, i) => a[i + 1] = z[i + 1]

\* the while loop that looks for the first differing property
RECURSIVE FirstDifferent(_, _, _)
FirstDifferent(aProperties, zProperties, offset) ==
    IF /\ Len(aProperties) < offset
       /\ Len(zProperties) < offset
       /\ SameAt(aProperties, zProperties, offset)
    THEN FirstDifferent(aProperties, zProperties, offset + 1)
    ELSE offset

\* (a[i] ?? Infinity) - (z[i] ?? Infinity), as far as its truthiness and sign
\* go: NaN, which is falsy, is 0 here
InfinityDelta(a, z, i) ==
    CASE ~Has(a, i) /\ ~Has(z, i) -> 0
      [] ~Has(a, i) -> 1
      [] ~Has(z, i) -> -1
      [] OTHER -> a[i + 1] - z[i + 1]

\* the for loop over the counts, from the 0-based i
RECURSIVE CountsDelta(_, _, _, _)
CountsDelta(aProperties, aCounts, zCounts, i) ==
    IF i >= Len(aProperties) THEN 0
    ELSE IF zCounts[i + 1] - aCounts[i + 1] # 0 THEN zCounts[i + 1] - aCounts[i + 1]
    ELSE CountsDelta(aProperties, aCounts, zCounts, i + 1)

\* the text comparison the comparator ends with, left out
CompareNodesWithoutText(aSorting, zSorting) ==
    LET aProperties == aSorting.properties[1]
        aCounts == aSorting.properties[2]
        zProperties == zSorting.properties[1]
        zCounts == zSorting.properties[2]
        offset == FirstDifferent(aProperties, zProperties, 0)
        lowestPropertyDelta == InfinityDelta(aProperties, zProperties, offset)
        uniquePropertyDelta == Len(zProperties) - Len(aProperties)
    IN  IF aSorting.variants - zSorting.variants # 0
        THEN aSorting.variants - zSorting.variants
        ELSE IF lowestPropertyDelta # 0 THEN lowestPropertyDelta
        ELSE IF uniquePropertyDelta # 0 THEN uniquePropertyDelta
        ELSE CountsDelta(aProperties, aCounts, zCounts, 0)

\* the comparator handed to astNodes.sort, on the two nodes' sort records
CompareNodes(aSorting, zSorting) ==
    LET aProperties == aSorting.properties[1]
        aCounts == aSorting.properties[2]
        zProperties == zSorting.properties[1]
        zCounts == zSorting.properties[2]
        offset == FirstDifferent(aProperties, zProperties, 0)
        lowestPropertyDelta == InfinityDelta(aProperties, zProperties, offset)
        uniquePropertyDelta == Len(zProperties) - Len(aProperties)
        countDelta == CountsDelta(aProperties, aCounts, zCounts, 0)
    IN  IF aSorting.variants - zSorting.variants # 0
        THEN aSorting.variants - zSorting.variants
        ELSE IF lowestPropertyDelta # 0 THEN lowestPropertyDelta
        ELSE IF uniquePropertyDelta # 0 THEN uniquePropertyDelta
        ELSE IF countDelta # 0 THEN countDelta
        ELSE compare(aSorting.candidate, zSorting.candidate)

\* Array.prototype.sort is stable: an element goes before the first element
\* already placed that the comparator puts after it
RECURSIVE InsertNode(_, _, _)
InsertNode(sorted, n, sorting) ==
    IF sorted = <<>> THEN <<n>>
    ELSE IF CompareNodes(sorting[n], sorting[Head(sorted)]) < 0 THEN <<n>> \o sorted
    ELSE <<Head(sorted)>> \o InsertNode(Tail(sorted), n, sorting)

RECURSIVE SortNodesFrom(_, _, _)
SortNodesFrom(sorted, rest, sorting) ==
    IF rest = <<>> THEN sorted
    ELSE SortNodesFrom(InsertNode(sorted, Head(rest), sorting), Tail(rest), sorting)

\* astNodes.sort((a, z) => ...)
SortNodes(ast, sorting) == SortNodesFrom(<<>>, ast, sorting)

RECURSIVE InsertVariant(_, _)
InsertVariant(sorted, v) ==
    IF sorted = <<>> THEN <<v>>
    ELSE IF variantsCompare(v, Head(sorted)) < 0 THEN <<v>> \o sorted
    ELSE <<Head(sorted)>> \o InsertVariant(Tail(sorted), v)

RECURSIVE SortVariantsFrom(_, _)
SortVariantsFrom(sorted, rest) ==
    IF rest = <<>> THEN sorted
    ELSE SortVariantsFrom(InsertVariant(sorted, Head(rest)), Tail(rest))

\* designSystem.getUsedVariants(): the distinct variants of the candidates
\* parsed, in the order they were first met
RECURSIVE AppendNew(_, _)
AppendNew(used, vs) ==
    IF vs = <<>> THEN used
    ELSE AppendNew(IF \E k \in DOMAIN used : used[k] = Head(vs) THEN used
                   ELSE Append(used, Head(vs)), Tail(vs))

RECURSIVE getUsedVariants(_)
getUsedVariants(parsed) ==
    IF parsed = <<>> THEN <<>>
    ELSE AppendNew(getUsedVariants(SubSeq(parsed, 1, Len(parsed) - 1)),
                   parsed[Len(parsed)].candidate.variants)

\* designSystem.getUsedVariants().sort((a, z) => designSystem.variants.compare(a, z))
SortedUsedVariants(parsed) == SortVariantsFrom(<<>>, getUsedVariants(parsed))

----------------------------------------------------------------------------
(* compileCandidates: the loop bodies. *)

\* candidates.set(candidate, rawCandidate) on a Map kept in insertion order
MapSet(map, cand, raw) ==
    IF \E k \in DOMAIN map : map[k].candidate = cand
    THEN [k \in DOMAIN map |->
            IF map[k].candidate = cand THEN [map[k] EXCEPT !.rawCandidate = raw]
            ELSE map[k]]
    ELSE Append(map, [candidate |-> cand, rawCandidate |-> raw])

\* the body of the parse loop, with the onInvalidCandidate call left out
ParseBodySilent(st, ds, raw) ==
    LET cand == parseCandidate(ds, raw) IN
    IF cand.kind = "null" THEN st
    ELSE [st EXCEPT !.candidates = MapSet(@, cand, raw)]

\* the body of the parse loop on one raw candidate; st holds candidates and
\* invalid
ParseBody(st, ds, raw) ==
    LET cand == parseCandidate(ds, raw) IN
    IF cand.kind = "null" THEN [st EXCEPT !.invalid = Append(@, raw)]
    ELSE [st EXCEPT !.candidates = MapSet(@, cand, raw)]

\* the bit added instead of or-ed in
BitAdd(variantOrder, bit) == variantOrder + 2 ^ bit

\* variantOrder |= 1n << BigInt(bit)
BitOr(variantOrder, bit) ==
    IF (variantOrder \div (2 ^ bit)) % 2 = 1 THEN variantOrder
    ELSE variantOrder + 2 ^ bit

\* the loop over candidate.variants that builds variantOrder
RECURSIVE VariantOrderFrom(_, _, _, _)
VariantOrderFrom(variantOrder, vs, k, sortedVariants) ==
    IF k > Len(vs) THEN variantOrder
    ELSE VariantOrderFrom(BitOr(variantOrder, IndexOf(sortedVariants, vs[k])),
                          vs, k + 1, sortedVariants)

\* the body of the loop that creates the AST, on one entry of candidates; st
\* holds astNodes, nodeSorting and invalid
CreateBody(st, ds, sortedVariants, entry) ==
    LET cand == entry.candidate
        astNode == compileAstNodes(entry.rawCandidate, ds)
    IN  IF astNode.kind = "null"
        THEN [st EXCEPT !.invalid = Append(@, entry.rawCandidate)]
        ELSE [st EXCEPT !.nodeSorting =
                            (astNode.node :>
                                [properties |-> astNode.propertySort,
                                 variants |-> VariantOrderFrom(0, cand.variants, 1,
                                                               sortedVariants),
                                 candidate |-> entry.rawCandidate]) @@ @,
                        !.astNodes = Append(@, astNode.node)]

RECURSIVE ParseAll(_, _, _, _)
ParseAll(st, ds, raws, k) ==
    IF k > Len(raws) THEN st ELSE ParseAll(ParseBody(st, ds, raws[k]), ds, raws, k + 1)

RECURSIVE CreateAll(_, _, _, _)
CreateAll(st, ds, sortedVariants, k) ==
    IF k > Len(st.candidates) THEN st
    ELSE CreateAll(CreateBody(st, ds, sortedVariants, st.candidates[k]), ds,
                   sortedVariants, k + 1)

\* compileCandidates(rawCandidates, designSystem, { onInvalidCandidate }) as
\* a whole: what it returns and the onInvalidCandidate calls it made
compileCandidates(raws, ds) ==
    LET parsed == ParseAll([candidates |-> <<>>, invalid |-> <<>>,
                            astNodes |-> <<>>, nodeSorting |-> <<>>], ds, raws, 1)
        created == CreateAll(parsed, ds, SortedUsedVariants(parsed.candidates), 1)
    IN  [astNodes |-> SortNodes(created.astNodes, created.nodeSorting),
         nodeSorting |-> created.nodeSorting,
         invalid |-> created.invalid]

----------------------------------------------------------------------------
(* Inputs of compileCandidates: a design system and the batches over it. *)

\* the variants a raw candidate's prefix names
Prefixes ==
    {[text |-> <<>>, variants |-> <<>>],
     [text |-> <<"f", ":">>, variants |-> <<StaticVariant("focus")>>],
     [text |-> <<"h", ":">>, variants |-> <<StaticVariant("has")>>],
     [text |-> <<"f", ":", "h", ":">>,
      variants |-> <<StaticVariant("focus"), StaticVariant("has")>>],
     [text |-> <<"f", ":", "f", ":">>,
      variants |-> <<StaticVariant("focus"), StaticVariant("focus")>>],
     [text |-> <<"x", ":">>, variants |-> <<StaticVariant("unsupported")>>]}

\* the utilities registered, by root: what each compiles to
Registered ==
    [p |-> Nodes(<<decl("padding", "1")>>),
     r |-> Nodes(<<decl("padding", "2")>>),
     d |-> Nodes(<<decl("display", "flex")>>),
     m |-> Nodes(<<decl("padding", "1"), decl("display", "flex")>>),
     c |-> Nodes(<<decl("padding", "1"), decl("color", "red")>>),
     q |-> Nodes(<<decl("padding", "1"), decl("padding", "2"), decl("display", "flex")>>),
     n |-> Null]

\* the raw candidates of the batches: every registered root and "z", which
\* nothing is registered under, bare; "c" and "r" behind every prefix
RawPool ==
    {<<u>> : u \in DOMAIN Registered \cup {"z"}}
    \cup {pre.text \o <<u>> : pre \in Prefixes, u \in {"c", "r"}}

\* the design system as a batch meets it: a raw candidate parses when its
\* root is registered; the utilities are those of the roots the batch names
BatchDesignSystem(raws) ==
    LET texts == {raws[k] : k \in DOMAIN raws} IN
    DesignSystem(
        [raw \in {x \in texts : x[Len(x)] \in DOMAIN Registered} |->
            LET pre == CHOOSE x \in Prefixes : x.text = SubSeq(raw, 1, Len(raw) - 1)
            IN  Named("static", raw[Len(raw)], FALSE, pre.variants)],
        [u \in {x[Len(x)] : x \in texts} \cap DOMAIN Registered |->
            <<Utility("static", Registered[u])>>],
        Null)

\* the sequences of n distinct raw candidates
RECURSIVE BatchesOfLength(_)
BatchesOfLength(n) ==
    IF n = 0 THEN {<<>>}
    ELSE UNION {{Append(b, raw) : raw \in RawPool \ {b[k] : k \in DOMAIN b}} :
                  b \in BatchesOfLength(n - 1)}

\* the batches: up to MaxBatch distinct raw candidates (the texts of a batch
\* are the distinct class names found in the scanned sources)
Batches == UNION {BatchesOfLength(n) : n \in 0..MaxBatch}

----------------------------------------------------------------------------
(* compileCandidates, loop iteration by loop iteration. *)

Init ==
    /\ rawCandidates \in Batches
    /\ designSystem = BatchDesignSystem(rawCandidates)
    /\ pc = "parse"
    /\ idx = 1
    /\ candidates = <<>>
    /\ variants = <<>>
    /\ astNodes = <<>>
    /\ nodeSorting = <<>>
    /\ invalid = <<>>
    /\ cpc = "idle"
    /\ rawCandidate = <<>>
    /\ candidate = Null
    /\ nodes = Null
    /\ propertySort = <<<<>>, <<>>>>
    /\ node = Null
    /\ vidx = 0
    /\ calls = <<>>
    /\ result = Undefined

\* one iteration of: for (let rawCandidate of rawCandidates)
ParseLoop ==
    /\ pc = "parse"
    /\ idx <= Len(rawCandidates)
    /\ LET st == ParseBody([candidates |-> candidates, invalid |-> invalid],
                           designSystem, rawCandidates[idx])
       IN  /\ candidates' = st.candidates
           /\ invalid' = st.invalid
    /\ idx' = idx + 1
    /\ UNCHANGED <<designSystem, rawCandidates, pc, variants, astNodes, nodeSorting>>
    /\ UNCHANGED compileVars

\* let variants = designSystem.getUsedVariants().sort(...)
SortVariants ==
    /\ pc = "parse"
    /\ idx > Len(rawCandidates)
    /\ variants' = SortedUsedVariants(candidates)
    /\ pc' = "create"
    /\ idx' = 1
    /\ UNCHANGED <<designSystem, rawCandidates, candidates, astNodes, nodeSorting, invalid>>
    /\ UNCHANGED compileVars

\* one iteration of: next: for (let [candidate, rawCandidate] of candidates)
CreateLoop ==
    /\ pc = "create"
    /\ idx <= Len(candidates)
    /\ LET st == CreateBody([astNodes |-> astNodes, nodeSorting |-> nodeSorting,
                             invalid |-> invalid],
                            designSystem, variants, candidates[idx])
       IN  /\ astNodes' = st.astNodes
           /\ nodeSorting' = st.nodeSorting
           /\ invalid' = st.invalid
    /\ idx' = idx + 1
    /\ UNCHANGED <<designSystem, rawCandidates, pc, candidates, variants>>
    /\ UNCHANGED compileVars

\* astNodes.sort(...); return { astNodes, nodeSorting }
SortAstNodes ==
    /\ pc = "create"
    /\ idx > Len(candidates)
    /\ astNodes' = SortNodes(astNodes, nodeSorting)
    /\ pc' = "done"
    /\ UNCHANGED <<designSystem, rawCandidates, idx, candidates, variants, nodeSorting,
                   invalid>>
    /\ UNCHANGED compileVars

Next == ParseLoop \/ SortVariants \/ CreateLoop \/ SortAstNodes

Spec == Init /\ [][Next]_vars

\* the loops, run iteration by iteration, give what compileCandidates gives
LoopsAgree ==
    pc = "done" =>
        LET whole == compileCandidates(rawCandidates, designSystem) IN
        /\ astNodes = whole.astNodes
        /\ nodeSorting = whole.nodeSorting
        /\ invalid = whole.invalid

----------------------------------------------------------------------------
(* Claims about compileCandidates (Spec). *)

\* the raw candidate parses
Parses(raw) == parseCandidate(designSystem, raw).kind # "null"

\* the raw candidate parses, its base utility resolves to nodes and the
\* applyFn of each of its variants accepts the rule
FullyCompiles(raw) ==
    /\ Parses(raw)
    /\ LET cand == parseCandidate(designSystem, raw) IN
         /\ compileBaseUtility(cand, designSystem).kind = "nodes"
         /\ \A k \in DOMAIN cand.variants :
               VariantBehaviour(cand.variants[k].root) # "null"

\* the raw texts of the emitted nodes, in output order
EmittedTexts == [k \in DOMAIN astNodes |-> nodeSorting[astNodes[k]].candidate]

\* the elements of a sequence that satisfy a test given as a set
Keep(seq, set) == SelectSeq(seq, LAMBDA x : x \in set)

\* C1: when compileCandidates is done, every raw candidate of the batch that
\* parses and fully compiles has exactly one node in astNodes (the rule
\* compileAstNodes returns for it) and one sort record; a candidate that
\* fails has no node and no sort record, wherever it stands in the batch.
C1_OneNodePerCompiled ==
    pc = "done" =>
        /\ \A i \in DOMAIN rawCandidates :
              Cardinality({k \in DOMAIN astNodes :
                              EmittedTexts[k] = rawCandidates[i]})
                 = IF FullyCompiles(rawCandidates[i]) THEN 1 ELSE 0
        /\ Len(astNodes) =
              Cardinality({i \in DOMAIN rawCandidates : FullyCompiles(rawCandidates[i])})
        /\ DOMAIN nodeSorting = {astNodes[k] : k \in DOMAIN astNodes}
        /\ \A k \in DOMAIN astNodes :
              astNodes[k] = compileAstNodes(EmittedTexts[k], designSystem).node

\* a batch whose first candidate fails and whose second compiles is done, the
\* second emitted
C1_Witness ==
    /\ pc = "done"
    /\ Len(rawCandidates) = 2
    /\ ~FullyCompiles(rawCandidates[1])
    /\ FullyCompiles(rawCandidates[2])
    /\ EmittedTexts = <<rawCandidates[2]>>

\* C2 as stated: onInvalidCandidate is called once per failing candidate, and
\* the calls come in the order the failing candidates have in the batch,
\* whatever the kind of failure.
C2_EncounterOrderAsStated ==
    pc = "done" =>
        invalid = Keep(rawCandidates,
                       {raw \in RawPool : ~FullyCompiles(raw)})

\* C2, amended: onInvalidCandidate is called once per failing candidate: first
\* for the candidates that fail to parse, in batch order, then for those that
\* parse and fail to compile, in batch order.
C2_ParseFailuresFirst ==
    pc = "done" =>
        invalid = Keep(rawCandidates, {raw \in RawPool : ~Parses(raw)})
                  \o Keep(rawCandidates,
                          {raw \in RawPool : Parses(raw) /\ ~FullyCompiles(raw)})

\* a candidate that fails to compile came before one that fails to parse, and
\* both were reported
C2_Witness ==
    /\ pc = "done"
    /\ Len(rawCandidates) = 2
    /\ Parses(rawCandidates[1]) /\ ~FullyCompiles(rawCandidates[1])
    /\ ~Parses(rawCandidates[2])
    /\ invalid = <<rawCandidates[2], rawCandidates[1]>>

\* the variants the parsed candidates of the batch use
UsedVariantSet ==
    UNION {{parseCandidate(designSystem, rawCandidates[i]).variants[k] :
               k \in DOMAIN parseCandidate(designSystem, rawCandidates[i]).variants} :
             i \in {j \in DOMAIN rawCandidates : Parses(rawCandidates[j])}}

\* the bit of a variant: the number of used variants the comparator puts
\* before it
BitOf(v) == Cardinality({w \in UsedVariantSet : variantsCompare(w, v) < 0})

RECURSIVE SumOfBits(_)
SumOfBits(bits) ==
    IF bits = {} THEN 0
    ELSE LET b == CHOOSE x \in bits : TRUE IN 2 ^ b + SumOfBits(bits \ {b})

\* the variant priority of a raw candidate: one bit per variant it uses
PriorityOf(raw) ==
    LET vs == parseCandidate(designSystem, raw).variants IN
    SumOfBits({BitOf(vs[k]) : k \in DOMAIN vs})

\* C3: when compileCandidates is done, the variant priority recorded for a
\* node has one bit per variant of its candidate, at the variant's place in
\* the used variants ordered by the comparator; and of two emitted nodes with
\* different priorities the one with the smaller priority comes first.
C3_VariantPriority ==
    pc = "done" =>
        /\ \A k \in DOMAIN astNodes :
              nodeSorting[astNodes[k]].variants = PriorityOf(EmittedTexts[k])
        /\ \A i, j \in DOMAIN astNodes :
              nodeSorting[astNodes[i]].variants < nodeSorting[astNodes[j]].variants
                 => i < j

\* a node with a later property and a later text but a smaller variant
\* priority stands before one with both variants; has is bit 0, focus bit 1
C3_Witness ==
    /\ pc = "done"
    /\ rawCandidates = <<<<"f", ":", "h", ":", "c">>, <<"f", ":", "r">>>>
    /\ EmittedTexts = <<<<"f", ":", "r">>, <<"f", ":", "h", ":", "c">>>>
    /\ nodeSorting[astNodes[1]].variants = 2
    /\ nodeSorting[astNodes[2]].variants = 3

\* the first 0-based position at which two sequences differ, an absent
\* element differing from a present one; the sequences are not equal
Divergence(a, z) ==
    CHOOSE i \in 0..Len(a) : ~SameAt(a, z, i) /\ \A j \in 0..(i - 1) : SameAt(a, z, j)

\* C4 as stated: of two emitted nodes with equal variant priority and
\* different property-index sequences, the one with the smaller index at the
\* first position where the sequences differ (no index counting as the
\* largest) comes first, wherever that position is.
C4_FirstDivergenceAsStated ==
    pc = "done" =>
        \A i, j \in DOMAIN astNodes :
            LET a == nodeSorting[astNodes[i]]
                z == nodeSorting[astNodes[j]]
            IN  (/\ a.variants = z.variants
                 /\ a.properties[1] # z.properties[1]
                 /\ InfinityDelta(a.properties[1], z.properties[1],
                                  Divergence(a.properties[1], z.properties[1])) < 0)
                => i < j

\* C5: when compileCandidates is done, the nodes it returns and their order
\* are those it returns for every permutation of the batch (the raw texts of
\* a batch are distinct, so no two candidates tie on all five keys).
C5_OrderIndependent ==
    pc = "done" =>
        \A perm \in Permutations(DOMAIN rawCandidates) :
            compileCandidates([k \in DOMAIN rawCandidates |-> rawCandidates[perm[k]]],
                              designSystem).astNodes = astNodes

\* two candidates that tie on variants, property indices and counts came in
\* the order against their texts and were returned in text order
C5_Witness ==
    /\ pc = "done"
    /\ rawCandidates = <<<<"r">>, <<"p">>>>
    /\ EmittedTexts = <<<<"p">>, <<"r">>>>
    /\ nodeSorting[astNodes[1]].properties = nodeSorting[astNodes[2]].properties

====
